---- MODULE Spec2Model ----
(***************************************************************************)
(* Model of extract_all_images.py: the coordinator (_main), the worker     *)
(* pool (multiprocessing.Pool) and the per-image job (_extractImage).      *)
(*                                                                         *)
(* Python strings are sequences of one-character strings, bytes are        *)
(* sequences of numbers, pathlib paths are records [root, parts].          *)
(***************************************************************************)
EXTENDS Integers, Sequences, FiniteSets, TLC

(* ------------------------------ bounds --------------------------------- *)

\* number of entries of the cache's image directory
NumImages == 2

\* number of worker processes of the pool (os.cpu_count() in the program)
Processes == 2

\* longest image path (in characters) the rich directory draws
MaxPathLen == 3

\* number of bytes of the cache file
CacheLen == 2

\* writes one job's pipeline may make to its image buffer (byte-level runs)
MaxPatches == 1

\* logging calls the pipeline steps of one job may make (logging runs)
MaxRecords == 1

(* --------------------------- strings, bytes ---------------------------- *)

Min(a, b) == IF a < b THEN a ELSE b

\* the characters image paths are drawn from
PathChars == {"/", "a", "."}

\* all strings over PathChars of length 0..n
StrsUpTo(n) == UNION {[1..k -> PathChars] : k \in 0..n}

\* bytes.decode("utf-8") / str.encode on the ASCII characters used here
Ord(c) == CASE c = "/" -> 47 [] c = "." -> 46 [] c = "a" -> 97 [] c = "b" -> 98
            [] c = "c" -> 99 [] c = "d" -> 100 [] OTHER -> 63

Chr(b) == CASE b = 47 -> "/" [] b = 46 -> "." [] b = 97 -> "a" [] b = 98 -> "b"
            [] b = 99 -> "c" [] b = 100 -> "d" [] OTHER -> "?"

Encode(s) == [k \in 1..Len(s) |-> Ord(s[k])]

Decode(bs) == [k \in 1..Len(bs) |-> Chr(bs[k])]

\* s[n:] of Python (n >= 0)
DropFirst(s, n) == SubSeq(s, n + 1, Len(s))

\* s[0:-1] of Python: all but the last element; empty stays empty
DropLast(s) == SubSeq(s, 1, Len(s) - 1)

\* DyldContext.readString: the bytes from file offset off up to and
\* including the first NUL (offsets count from 0)
RECURSIVE ReadString(_, _)
ReadString(bytes, off) ==
    IF off >= Len(bytes) THEN <<>>
    ELSE IF bytes[off + 1] = 0 THEN <<0>>
    ELSE <<bytes[off + 1]>> \o ReadString(bytes, off + 1)

(* ------------------------------ pathlib -------------------------------- *)

\* number of leading "/" of s
RECURSIVE LeadingSlashes(_)
LeadingSlashes(s) ==
    IF s = <<>> \/ s[1] # "/" THEN 0 ELSE 1 + LeadingSlashes(DropFirst(s, 1))

\* s.split("/") as a sequence of strings
RECURSIVE Split(_)
Split(s) ==
    IF \A k \in 1..Len(s) : s[k] # "/" THEN <<s>>
    ELSE LET k == CHOOSE k \in 1..Len(s) :
                      s[k] = "/" /\ \A m \in 1..(k - 1) : s[m] # "/"
         IN <<SubSeq(s, 1, k - 1)>> \o Split(DropFirst(s, k))

\* the components pathlib keeps: empty ones and "." are dropped
RECURSIVE KeepParts(_)
KeepParts(ps) ==
    IF ps = <<>> THEN <<>>
    ELSE IF ps[1] = <<>> \/ ps[1] = <<".">> THEN KeepParts(DropFirst(ps, 1))
    ELSE <<ps[1]>> \o KeepParts(DropFirst(ps, 1))

\* PurePosixPath(s): exactly two leading slashes are kept as the root "//",
\* one or three and more are the root "/"
PathOf(s) ==
    [root  |-> LET n == LeadingSlashes(s)
               IN IF n = 0 THEN "" ELSE IF n = 2 THEN "//" ELSE "/",
     parts |-> KeepParts(Split(s))]

\* pathlib's  p / s : an absolute right operand replaces the left one
JoinPath(p, s) ==
    LET q == PathOf(s)
    IN IF q.root # "" THEN q
       ELSE [root |-> p.root, parts |-> p.parts \o q.parts]

\* Path.parent
Parent(p) == [root |-> p.root, parts |-> DropLast(p.parts)]

\* p and its ancestors down to (not including) the anchor: what
\* mkdir(parents=True) has to make directories
Ancestors(p) ==
    {[root |-> p.root, parts |-> SubSeq(p.parts, 1, k)] : k \in 1..Len(p.parts)}

\* the file-system object a path names, ".." followed upwards (no
\* symbolic links): "/.." is "/", a relative path may climb above the
\* working directory
RECURSIVE ResolveParts(_, _, _)
ResolveParts(parts, done, rooted) ==
    IF parts = <<>> THEN done
    ELSE IF parts[1] # <<".", ".">>
         THEN ResolveParts(DropFirst(parts, 1), Append(done, parts[1]), rooted)
    ELSE IF done # <<>> /\ done[Len(done)] # <<".", ".">>
         THEN ResolveParts(DropFirst(parts, 1), DropLast(done), rooted)
    ELSE IF rooted
         THEN ResolveParts(DropFirst(parts, 1), done, rooted)
    ELSE ResolveParts(DropFirst(parts, 1), Append(done, parts[1]), rooted)

Resolve(p) ==
    [root |-> p.root, parts |-> ResolveParts(p.parts, <<>>, p.root # "")]

\* a path that names a directory whatever the file system holds: the
\* working directory, a root, or a climb above the working directory
AlwaysDir(p) == p.parts = <<>> \/ p.parts[Len(p.parts)] = <<".", ".">>

\* the directories mkdir(parents=True) of p has to find or make
DirsToMake(p) == {d \in {Resolve(a) : a \in Ancestors(p)} : ~AlwaysDir(d)}

(* --------------------------- the cache file ---------------------------- *)

\* the address ranges of the cache (DyldContext.mappings)
Mappings == <<[address |-> 16, size |-> 2, fileOffset |-> 0]>>

\* DyldContext.convertAddr: the file offset of a virtual address, -1 when no
\* mapping contains it
ConvertAddr(addr) ==
    IF \E k \in 1..Len(Mappings) :
           /\ Mappings[k].address <= addr
           /\ addr < Mappings[k].address + Mappings[k].size
    THEN LET k == CHOOSE k \in 1..Len(Mappings) :
                      /\ Mappings[k].address <= addr
                      /\ addr < Mappings[k].address + Mappings[k].size
         IN addr - Mappings[k].address + Mappings[k].fileOffset
    ELSE -1

\* the data bytes of the cache file as the run finds them
CacheBytes == [k \in 1..CacheLen |-> k]

\* the __LINKEDIT segment command of an image after offset compaction:
\* absent, or lying inside the compacted buffer
NoSeg == [present |-> FALSE, fileoff |-> 0, filesize |-> 0]

LinkeditSegs ==
    {NoSeg} \cup
    {[present |-> TRUE, fileoff |-> o, filesize |-> z] :
        o \in 0..CacheLen, z \in 0..CacheLen} 

ValidSeg(s) == s.present => s.fileoff + s.filesize <= CacheLen

\* the path bytes of a directory whose entry i has path paths[i]: the
\* NUL-terminated strings one after the other
RECURSIVE PathRegion(_)
PathRegion(paths) ==
    IF paths = <<>> THEN <<>>
    ELSE Encode(paths[1]) \o <<0>> \o PathRegion(DropFirst(paths, 1))

RECURSIVE PathOffsets(_, _)
PathOffsets(paths, at) ==
    IF paths = <<>> THEN <<>>
    ELSE <<at>> \o PathOffsets(DropFirst(paths, 1), at + Len(paths[1]) + 1)

\* dyld_cache_image_info entries for the given addresses and paths
Directory(addrs, paths) ==
    [i \in 1..Len(paths) |->
        [address |-> addrs[i], pathFileOffset |-> PathOffsets(paths, 0)[i]]]

(* ------------------------------- state --------------------------------- *)

VARIABLES
    \* inputs: the cache file and the command line
    images,        \* dyldCtx.images: <<[address, pathFileOffset]>>
    pathBytes,     \* the bytes of the cache holding the image paths
    cacheFile,     \* the data bytes of the cache file on disk
    segs,          \* segs[i]: __LINKEDIT of image i once compacted
    outputDir,     \* args.output
    verbosity,     \* -v on the command line; -1 when the option is not given
    \* the coordinator, _main
    pc,            \* where _main is
    imagePaths,    \* the list built by the enumeration loop
    jobs,          \* the outstanding list: <<[imagePath, job]>>
    scan,          \* position of the for loop over reversed(range(len(jobs)))
    jobsComplete,
    loggingLevel,  \* the level computed from args.verbosity
    fatal,         \* _main was left by an error before the pool was made
    jobOutputs,    \* the summary blocks of the collected jobs
    printed,       \* what _main has written to standard output
    progress,      \* the values passed to progressBar.update
    collected,     \* the jobs whose result _main has taken, in that order
    \* the pool and its jobs; job k is the k-th apply_async
    task,          \* task[k]: the arguments of job k
    jpc,           \* jpc[k]: where job k is
    outputPath,    \* outputPath[k] of _extractImage
    imageOffset,
    steps,         \* steps[k]: the pipeline steps job k has called
    err,           \* err[k]: the exception job k ended or was caught with
    priv,          \* priv[k]: the private pages of job k's ACCESS_COPY mapping
    patches,       \* number of writes job k made to its image buffer
    fileSize,
    \* logging in the worker processes
    stream,        \* stream[k]: the records in job k's StringIO
    closed,        \* closed[k]: job k's StringIO was closed (line 156)
    attached,      \* attached[k]: the earlier jobs whose handlers job k's
                   \* logger still carries
    misdelivered,  \* records a handler could not write: [from, to]
    emitted,       \* emitted[k]: the severities of job k's logging calls
    \* the worker processes of the pool
    workers,       \* workers[w]: "none", "booting", "ready" or "terminated"
    sigint,        \* sigint[w]: what SIGINT does in process w
    proc,          \* proc[k]: the process running job k (0: not tracked)
    signalled,     \* the jobs that were running in a process when a SIGINT
                   \* was delivered to it
    \* the file system below and around the output directory
    dirs,
    files

vars == <<images, pathBytes, cacheFile, segs, outputDir, pc, imagePaths, jobs,
          scan, jobsComplete, task, jpc, outputPath, imageOffset, steps, err,
          priv, patches, fileSize, dirs, files, verbosity, loggingLevel,
          fatal, jobOutputs, printed, progress, collected, stream, closed, attached,
          misdelivered, emitted, workers, sigint, proc, signalled>>

inputs == <<images, pathBytes, segs, outputDir, verbosity>>
coordVars == <<pc, imagePaths, jobs, scan, jobsComplete>>
reportVars == <<loggingLevel, fatal, jobOutputs, printed, progress, collected>>
logVars == <<stream, closed, attached, misdelivered, emitted>>
sinkVars == <<stream, misdelivered, emitted>>
poolVars == <<workers, sigint, proc, signalled>>
fsVars == <<dirs, files>>

JobIds == 1..NumImages

NoPath == [root |-> "", parts |-> <<>>]
NoTask == [imageIndex |-> -1, imagePath |-> <<>>, loggingLevel |-> 0]

(* ------------------------------- mmap ---------------------------------- *)

\* a private mapping none of whose pages was written (-1: page not copied)
CleanPages == [p \in 1..CacheLen |-> -1]

\* the mapping made shared: stores go through to the file
MachoAccessShared == "ACCESS_WRITE"

\* the access mode of the image buffer's mapping (line 118)
MachoAccess == "ACCESS_COPY"

\* what job k reads through its image buffer: its private copy of a page it
\* wrote, the file's page otherwise
MachoView(k) ==
    [p \in 1..Len(cacheFile) |->
        IF priv[k][p] >= 0 THEN priv[k][p] ELSE cacheFile[p]]

\* mmap.read(n) after seek(0): at most n bytes, fewer at end of file
ReadFromStart(buf, n) == SubSeq(buf, 1, Min(n, Len(buf)))

\* file.write(data) on a file opened at position 0
WriteAtStart(old, data) == data \o SubSeq(old, Len(data) + 1, Len(old))

(* ------------------------------ logging -------------------------------- *)

\* the severities of Python's logging module
Severities == {"DEBUG", "INFO", "WARNING", "ERROR", "CRITICAL"}

\* logging.DEBUG .. logging.CRITICAL
LevelNo(sev) ==
    CASE sev = "DEBUG" -> 10 [] sev = "INFO" -> 20 [] sev = "WARNING" -> 30
      [] sev = "ERROR" -> 40 [] OTHER -> 50

\* line 60: default=1
DefaultVerbosity == 1

\* lines 57-63: args.verbosity as argparse delivers it
ArgsVerbosity(v) == IF v < 0 THEN DefaultVerbosity ELSE v

\* the chain with verbosity 1 taken one step too far: INFO instead of WARNING
LoggingLevelShifted(v) ==
    IF v = 0 THEN 100
    ELSE IF v = 1 THEN LevelNo("INFO")
    ELSE IF v = 2 THEN LevelNo("INFO")
    ELSE LevelNo("DEBUG")

\* lines 174-182: the if/elif chain over args.verbosity
LoggingLevel(v) ==
    IF v = 0 THEN 100
    ELSE IF v = 1 THEN LevelNo("WARNING")
    ELSE IF v = 2 THEN LevelNo("INFO")
    ELSE LevelNo("DEBUG")

\* Logger.isEnabledFor of a logger whose level is level (line 110)
Captures(level, sev) == LevelNo(sev) >= level

\* the handlers of job k's logger: its own and those earlier jobs left on
\* the logger of the same name (logging.getLogger returns one logger per
\* name and process, line 98; no handler is ever removed)
Handlers(k) == attached[k] \cup {k}

\* one logging call of job k: if the logger's level lets the record pass,
\* every handler writes it to its stream; writing to a closed StringIO
\* fails (logging reports the error and goes on)
Log(k, sev) ==
    /\ emitted' = [emitted EXCEPT ![k] = Append(@, sev)]
    /\ IF Captures(task[k].loggingLevel, sev)
       THEN /\ stream' =
                [j \in JobIds |->
                    IF j \in Handlers(k) /\ ~closed[j]
                    THEN Append(stream[j], [job |-> k, level |-> sev])
                    ELSE stream[j]]
            /\ misdelivered' = misdelivered \cup
                   {[from |-> k, to |-> j] : j \in {h \in Handlers(k) : closed[h]}}
       ELSE UNCHANGED <<stream, misdelivered>>

\* logger.debug(e) in the place of logger.exception(e)
CaughtSeverityDebug == "DEBUG"

\* line 149: logger.exception logs at ERROR
CaughtSeverity == "ERROR"

(* ------------------------ the job, _extractImage ----------------------- *)

\* the try block with the stub fixer called before the linkedit rebuild
PipelineSwapped ==
    <<"processSlideInfo", "fixStubs", "optimizeLinkedit", "fixObjC",
      "optimizeOffsets">>

\* the calls of the try block, in program order (lines 129-133)
Pipeline ==
    <<"processSlideInfo", "optimizeLinkedit", "fixStubs", "fixObjC",
      "optimizeOffsets">>

\* lines 91-93: one leading slash is removed
StripSlash(imagePath) ==
    IF imagePath[1] = "/" THEN DropFirst(imagePath, 1) ELSE imagePath

\* line 95
OutputPath(dir, imagePath) == JoinPath(PathOf(dir), StripSlash(imagePath))

\* the size taken to be the segment's size alone
FileSizeNoOffset(seg) == seg.filesize

\* lines 141-142
FileSize(seg) == seg.fileoff + seg.filesize

\* the file job k's output path names
OutFile(k) == Resolve(outputPath[k])

\* positions of a job that a worker process is executing
RunningPcs ==
    {"setup", "map", "macho", "try", "mkdir", "open", "size", "write", "finish"}

Running == {k \in JobIds : jpc[k] \in RunningPcs}

\* the job left the function by an exception (the pool stores it in the
\* AsyncResult, get() re-raises it)
Raise(k, e) ==
    /\ jpc' = [jpc EXCEPT ![k] = "raised"]
    /\ err' = [err EXCEPT ![k] = e]

\* lines 148-150: the exception is logged and the function goes on to return
Caught(k, e) ==
    /\ jpc' = [jpc EXCEPT ![k] = "finish"]
    /\ err' = [err EXCEPT ![k] = e]
    /\ Log(k, CaughtSeverity)

\* a free worker process takes the oldest queued task (which process it is
\* is left open here and proc[k] stays 0; StartJobOn keeps track of it)
StartJob(k) ==
    /\ jpc[k] = "queued"
    /\ \A m \in 1..(k - 1) : jpc[m] # "queued"
    /\ Cardinality(Running) < Processes
    /\ jpc' = [jpc EXCEPT ![k] = "setup"]
    /\ UNCHANGED <<inputs, cacheFile, coordVars, task, outputPath, imageOffset,
                   steps, err, priv, patches, fileSize, fsVars,
                   reportVars, logVars, poolVars>>

\* job j got as far as logger.addHandler (line 108)
AddedHandler(j) ==
    jpc[j] \notin {"none", "queued", "cancelled", "setup"} /\ err[j] # "IndexError"

\* the earlier jobs whose handlers sit on the logger getLogger returns to
\* job k (line 98): those run by the same process under the same name
SameLogger(k, path) ==
    {j \in JobIds \ {k} :
        /\ proc[k] # 0
        /\ proc[j] = proc[k]
        /\ AddedHandler(j)
        /\ outputPath[j] = path}

\* lines 90-110: the output path and the logger
JobSetup(k) ==
    /\ jpc[k] = "setup"
    /\ IF task[k].imagePath = <<>>
       THEN /\ Raise(k, "IndexError")
            /\ UNCHANGED <<outputPath, attached>>
       ELSE LET path == OutputPath(outputDir, task[k].imagePath)
            IN /\ outputPath' = [outputPath EXCEPT ![k] = path]
               /\ attached' = [attached EXCEPT ![k] = SameLogger(k, path)]
               /\ jpc' = [jpc EXCEPT ![k] = "map"]
               /\ UNCHANGED err
    /\ UNCHANGED <<inputs, cacheFile, coordVars, task, imageOffset, steps, priv,
                   patches, fileSize, fsVars, reportVars, stream, closed,
                   misdelivered, emitted, poolVars>>

\* lines 113-116: the read-only mapping and the image's file offset
JobMapCache(k) ==
    /\ jpc[k] = "map"
    /\ LET off == ConvertAddr(images[task[k].imageIndex + 1].address)
       IN IF off < 0
          THEN /\ Raise(k, "AddressNotMapped")
               /\ UNCHANGED imageOffset
          ELSE /\ imageOffset' = [imageOffset EXCEPT ![k] = off]
               /\ jpc' = [jpc EXCEPT ![k] = "macho"]
               /\ UNCHANGED err
    /\ UNCHANGED <<inputs, cacheFile, coordVars, task, outputPath, steps, priv,
                   patches, fileSize, fsVars, reportVars, logVars, poolVars>>

\* lines 118-126: the copy-on-write mapping, the Mach-O parse (which a
\* malformed image fails) and the extraction context
JobMachO(k) ==
    /\ jpc[k] = "macho"
    /\ priv' = [priv EXCEPT ![k] = CleanPages]
    /\ \E wellFormed \in BOOLEAN :
          IF wellFormed
          THEN jpc' = [jpc EXCEPT ![k] = "try"] /\ UNCHANGED err
          ELSE Raise(k, "MalformedMachO")
    /\ UNCHANGED <<inputs, cacheFile, coordVars, task, outputPath, imageOffset,
                   steps, patches, fileSize, fsVars,
                   reportVars, logVars, poolVars>>

\* lines 129-133: the next call of the try block; it returns or raises
RunStep(k) ==
    /\ jpc[k] = "try"
    /\ Len(steps[k]) < Len(Pipeline)
    /\ LET step == Pipeline[Len(steps[k]) + 1]
       IN /\ steps' = [steps EXCEPT ![k] = Append(@, step)]
          /\ \E returns \in BOOLEAN :
                IF returns
                THEN /\ jpc' = [jpc EXCEPT ![k] =
                                   IF Len(steps[k]) + 1 = Len(Pipeline)
                                   THEN "mkdir" ELSE "try"]
                     /\ UNCHANGED <<err, sinkVars>>
                ELSE Caught(k, step)
    /\ UNCHANGED <<inputs, cacheFile, coordVars, task, outputPath, imageOffset,
                   priv, patches, fileSize, fsVars,
                   reportVars, closed, attached, poolVars>>

\* a store a pipeline step makes into the image buffer
MmapWrite(k, p, b) ==
    IF MachoAccess = "ACCESS_COPY"
    THEN /\ priv' = [priv EXCEPT ![k][p] = b]
         /\ UNCHANGED cacheFile
    ELSE /\ cacheFile' = [cacheFile EXCEPT ![p] = b]
         /\ UNCHANGED priv

\* the byte job k's pipeline stores (each job stores values of its own, so
\* that a byte tells who wrote it)
Stamp(k) == 10 * k

\* a pipeline step of job k stores a byte at a position not yet written
PatchByte(k) ==
    /\ jpc[k] = "try"
    /\ Len(steps[k]) < Len(Pipeline)
    /\ patches[k] < MaxPatches
    /\ \E p \in 1..CacheLen :
          /\ MachoView(k)[p] # Stamp(k)
          /\ MmapWrite(k, p, Stamp(k))
    /\ patches' = [patches EXCEPT ![k] = @ + 1]
    /\ UNCHANGED <<inputs, coordVars, task, jpc, outputPath, imageOffset, steps,
                   err, fileSize, fsVars, reportVars, logVars, poolVars>>

\* line 136: outputPath.parent.mkdir(parents=True, exist_ok=True)
JobMkdir(k) ==
    /\ jpc[k] = "mkdir"
    /\ LET made == DirsToMake(Parent(outputPath[k]))
       IN IF made \cap DOMAIN files # {}
          THEN Caught(k, "FileExistsError") /\ UNCHANGED dirs
          ELSE /\ dirs' = dirs \cup made
               /\ jpc' = [jpc EXCEPT ![k] = "open"]
               /\ UNCHANGED <<err, sinkVars>>
    /\ UNCHANGED <<inputs, cacheFile, coordVars, task, outputPath, imageOffset,
                   steps, priv, patches, fileSize, files,
                   reportVars, closed, attached, poolVars>>

\* line 137: open(outputPath, "wb+") creates the file or truncates it
JobOpen(k) ==
    /\ jpc[k] = "open"
    /\ IF OutFile(k) \in dirs \/ AlwaysDir(OutFile(k))
       THEN Caught(k, "IsADirectoryError") /\ UNCHANGED files
       ELSE /\ files' = (OutFile(k) :> <<>>) @@ files
            /\ jpc' = [jpc EXCEPT ![k] = "size"]
            /\ UNCHANGED <<err, sinkVars>>
    /\ UNCHANGED <<inputs, cacheFile, coordVars, task, outputPath, imageOffset,
                   steps, priv, patches, fileSize, dirs,
                   reportVars, closed, attached, poolVars>>

\* lines 138-142: the size of the new file
JobSize(k) ==
    /\ jpc[k] = "size"
    /\ LET seg == segs[task[k].imageIndex + 1]
       IN IF seg.present
          THEN /\ fileSize' = [fileSize EXCEPT ![k] = FileSize(seg)]
               /\ jpc' = [jpc EXCEPT ![k] = "write"]
               /\ UNCHANGED <<err, sinkVars>>
          ELSE Caught(k, "KeyError") /\ UNCHANGED fileSize
    /\ UNCHANGED <<inputs, cacheFile, coordVars, task, outputPath, imageOffset,
                   steps, priv, patches, fsVars,
                   reportVars, closed, attached, poolVars>>

\* lines 144-146: the buffer's first fileSize bytes go to the file
JobWrite(k) ==
    /\ jpc[k] = "write"
    /\ files' = [files EXCEPT ![OutFile(k)] =
                    WriteAtStart(@, ReadFromStart(MachoView(k), fileSize[k]))]
    /\ jpc' = [jpc EXCEPT ![k] = "finish"]
    /\ UNCHANGED <<inputs, cacheFile, coordVars, task, outputPath, imageOffset,
                   steps, err, priv, patches, fileSize, dirs,
                   reportVars, logVars, poolVars>>

\* lines 153-157: the log text is returned
JobFinish(k) ==
    /\ jpc[k] = "finish"
    /\ closed' = [closed EXCEPT ![k] = TRUE]
    /\ jpc' = [jpc EXCEPT ![k] = "returned"]
    /\ UNCHANGED <<inputs, cacheFile, coordVars, task, outputPath, imageOffset,
                   steps, err, priv, patches, fileSize, fsVars, reportVars,
                   stream, attached, misdelivered, emitted, poolVars>>

\* the log text job k returned (lines 155-157)
LoggingOutput(k) == stream[k]

\* a logging call made by a pipeline step of job k
EmitRecord(k) ==
    /\ jpc[k] = "try"
    /\ Len(emitted[k]) < MaxRecords
    /\ \E sev \in Severities : Log(k, sev)
    /\ UNCHANGED <<inputs, cacheFile, coordVars, task, jpc, outputPath,
                   imageOffset, steps, err, priv, patches, fileSize, fsVars,
                   reportVars, closed, attached, poolVars>>

(* ------------------------ the worker processes ------------------------- *)

\* an initializer that leaves Python's default handler in place
WorkerSigintDefault == "default_int_handler"

\* line 80: signal.signal(signal.SIGINT, signal.SIG_IGN)
WorkerSigint == "SIG_IGN"

\* lines 74-80: a worker process runs the initializer before it takes its
\* first task
WorkerInit(w) ==
    /\ workers[w] = "booting"
    /\ workers' = [workers EXCEPT ![w] = "ready"]
    /\ sigint' = [sigint EXCEPT ![w] = WorkerSigint]
    /\ UNCHANGED <<inputs, cacheFile, coordVars, task, jpc, outputPath,
                   imageOffset, steps, err, priv, patches, fileSize, fsVars,
                   reportVars, logVars, proc, signalled>>

\* the jobs process w is executing (at most one)
JobsOn(w) == {k \in JobIds : proc[k] = w /\ jpc[k] \in RunningPcs}

\* an initialised worker process that is between two tasks takes the oldest
\* queued task
StartJobOn(k, w) ==
    /\ jpc[k] = "queued"
    /\ \A m \in 1..(k - 1) : jpc[m] # "queued"
    /\ workers[w] = "ready"
    /\ JobsOn(w) = {}
    /\ jpc' = [jpc EXCEPT ![k] = "setup"]
    /\ proc' = [proc EXCEPT ![k] = w]
    /\ UNCHANGED <<inputs, cacheFile, coordVars, task, outputPath, imageOffset,
                   steps, err, priv, patches, fileSize, fsVars, reportVars,
                   logVars, workers, sigint, signalled>>

\* SIGINT is delivered to worker process w. Where it is ignored nothing
\* happens. Otherwise KeyboardInterrupt is raised in the process: it is no
\* Exception, so neither line 148 nor the pool's task loop catches it, the
\* process dies with its task unanswered and the pool forks a replacement
SigintWorker(w) ==
    /\ workers[w] \in {"booting", "ready"}
    /\ signalled' = signalled \cup JobsOn(w)
    /\ IF sigint[w] = "SIG_IGN"
       THEN UNCHANGED <<jpc, err, workers, sigint>>
       ELSE /\ jpc' = [k \in JobIds |-> IF k \in JobsOn(w) THEN "lost" ELSE jpc[k]]
            /\ err' = [k \in JobIds |->
                          IF k \in JobsOn(w) THEN "KeyboardInterrupt" ELSE err[k]]
            /\ workers' = [workers EXCEPT ![w] = "booting"]
            /\ sigint' = [sigint EXCEPT ![w] = "inherited"]
    /\ UNCHANGED <<inputs, cacheFile, coordVars, task, outputPath, imageOffset,
                   steps, priv, patches, fileSize, fsVars, reportVars, logVars,
                   proc>>

(* ------------------------ the coordinator, _main ----------------------- *)

\* line 191: the path of one directory entry
ImagePathOf(image) ==
    Decode(DropLast(ReadString(pathBytes, image.pathFileOffset)))

\* lines 185-194: the paths of all entries, in directory order
EnumeratePaths == [i \in 1..Len(images) |-> ImagePathOf(images[i])]

\* the job for position i given the path of the entry counted from the end
ExtractionArgsReversed(i) ==
    [imageIndex |-> i, imagePath |-> imagePaths[Len(imagePaths) - i],
     loggingLevel |-> loggingLevel]

\* line 202: the arguments of the job made for position i of enumerate()
ExtractionArgs(i) ==
    [imageIndex |-> i, imagePath |-> imagePaths[i + 1],
     loggingLevel |-> loggingLevel]

\* the pool left as by close(): nothing is killed, nothing dropped
AfterClose(j) == j

\* Pool.terminate() on one job: the worker running it is killed, a task
\* still in the queue is dropped, a finished job keeps its result
AfterTerminate(j) ==
    IF j \in RunningPcs THEN "terminated"
    ELSE IF j = "queued" THEN "cancelled" ELSE j

\* Pool.__exit__ (leaving the with block of line 196) calls terminate()
PoolExit == [k \in JobIds |-> AfterTerminate(jpc[k])]

\* AsyncResult.ready()
Ready(k) == jpc[k] \in {"returned", "raised"}

\* positions of _main inside the with block of lines 196-247
InPool == {"submit", "poll", "close", "summary"}

\* the pool's processes once terminate() or close() and join() are through
WorkersGone == [w \in 1..Processes |-> "terminated"]

\* an error of lines 164-194 that nothing catches is swallowed and _main
\* goes on to the pool
AfterFatalIgnored == "pool"

\* an exception raised in lines 164-194 leaves _main, which is not inside
\* any try or with block there: the process ends with the traceback
AfterFatal == "failed"

\* lines 164-182: the output directory (which the file system may refuse to
\* make) and the logging level
MakeOutputDir ==
    /\ pc = "mkdir"
    /\ \E made \in BOOLEAN :
          IF made
          THEN /\ dirs' = dirs \cup DirsToMake(PathOf(outputDir))
               /\ loggingLevel' = LoggingLevel(ArgsVerbosity(verbosity))
               /\ pc' = "enumerate"
               /\ UNCHANGED fatal
          ELSE /\ pc' = AfterFatal
               /\ fatal' = TRUE
               /\ UNCHANGED <<dirs, loggingLevel>>
    /\ UNCHANGED <<inputs, cacheFile, imagePaths, jobs, scan, jobsComplete, task,
                   jpc, outputPath, imageOffset, steps, err, priv, patches,
                   fileSize, files, jobOutputs, printed, progress, collected,
                   logVars,
                   poolVars>>

\* lines 185-194: the cache is opened, mapped and parsed, and the paths are
\* read; any of these may fail on a file that is missing or is no cache
Enumerate ==
    /\ pc = "enumerate"
    /\ \E readable \in BOOLEAN :
          IF readable
          THEN /\ imagePaths' = EnumeratePaths
               /\ pc' = "pool"
               /\ UNCHANGED fatal
          ELSE /\ pc' = AfterFatal
               /\ fatal' = TRUE
               /\ UNCHANGED imagePaths
    /\ UNCHANGED <<inputs, cacheFile, jobs, scan, jobsComplete, task, jpc,
                   outputPath, imageOffset, steps, err, priv, patches, fileSize,
                   fsVars, loggingLevel, jobOutputs, printed, progress, collected,
                   logVars,
                   poolVars>>

\* line 196: the pool forks its worker processes; each inherits the
\* coordinator's SIGINT handling until its initializer has run
CreatePool ==
    /\ pc = "pool"
    /\ pc' = "submit"
    /\ workers' = [w \in 1..Processes |-> "booting"]
    /\ UNCHANGED <<inputs, cacheFile, imagePaths, jobs, scan, jobsComplete, task,
                   jpc, outputPath, imageOffset, steps, err, priv, patches,
                   fileSize, fsVars, reportVars, logVars, sigint, proc,
                   signalled>>

\* lines 200-204: one iteration of the submission loop
Submit ==
    /\ pc = "submit"
    /\ Len(jobs) < Len(imagePaths)
    /\ LET i == Len(jobs)
           k == i + 1
       IN /\ task' = [task EXCEPT ![k] = ExtractionArgs(i)]
          /\ jpc' = [jpc EXCEPT ![k] = "queued"]
          /\ jobs' = Append(jobs, [imagePath |-> imagePaths[i + 1], job |-> k])
    /\ UNCHANGED <<inputs, cacheFile, pc, imagePaths, scan, jobsComplete,
                   outputPath, imageOffset, steps, err, priv, patches, fileSize,
                   fsVars, reportVars, logVars, poolVars>>

\* lines 206-213: the loop is over, progress bar and output list are set up
SetupProgress ==
    /\ pc = "submit"
    /\ Len(jobs) = Len(imagePaths)
    /\ pc' = "poll"
    /\ UNCHANGED <<inputs, cacheFile, imagePaths, jobs, scan, jobsComplete, task,
                   jpc, outputPath, imageOffset, steps, err, priv, patches,
                   fileSize, fsVars, reportVars, logVars, poolVars>>

\* lines 216-217: while len(jobs): for i in reversed(range(len(jobs)))
LoopTest ==
    /\ pc = "poll"
    /\ scan = 0
    /\ IF Len(jobs) > 0
       THEN scan' = Len(jobs) /\ pc' = pc
       ELSE scan' = 0 /\ pc' = "close"
    /\ UNCHANGED <<inputs, cacheFile, imagePaths, jobs, jobsComplete, task, jpc,
                   outputPath, imageOffset, steps, err, priv, patches, fileSize,
                   fsVars, reportVars, logVars, poolVars>>

\* line 222: imagePath.split("/")[-1], what follows the last slash
ImageName(imagePath) ==
    LET slashes == {i \in 1..Len(imagePath) : imagePath[i] = "/"}
        last == IF slashes = {} THEN 0
                ELSE CHOOSE i \in slashes : \A j \in slashes : j <= i
    IN SubSeq(imagePath, last + 1, Len(imagePath))

\* line 223: the line print(f"Processed: {imageName}") writes
ProcessedLine(imageName) ==
    [kind |-> "processed", name |-> imageName, job |-> 0, level |-> ""]

\* line 227: the header line, the log text and the footer line
SummaryBlock(imageName, jobOutput) ==
    <<[kind |-> "header", name |-> imageName, job |-> 0, level |-> ""]>>
    \o [i \in 1..Len(jobOutput) |->
           [kind |-> "record", name |-> <<>>, job |-> jobOutput[i].job,
            level |-> jobOutput[i].level]]
    \o <<[kind |-> "footer", name |-> <<>>, job |-> 0, level |-> ""]>>

\* every log text taken for non-empty
KeepsOutputAlways(jobOutput) == TRUE

\* line 226: if jobOutput
KeepsOutput(jobOutput) == jobOutput # <<>>

\* "".join(list) of line 245
RECURSIVE Join(_)
Join(list) == IF list = <<>> THEN <<>> ELSE Head(list) \o Join(Tail(list))

\* lines 244-246: the three prints of the final summary
FinalSummary(outputs) ==
    <<[kind |-> "summaryHeader", name |-> <<>>, job |-> 0, level |-> ""]>>
    \o Join(outputs)
    \o <<[kind |-> "summaryFooter", name |-> <<>>, job |-> 0, level |-> ""]>>

\* a collected job counted twice
JobsCompleteTwice(n) == n + 2

\* line 232: jobsComplete += 1
JobsCompleteNext(n) == n + 1

\* jobs.pop(i), i counted from 1
Pop(list, i) == SubSeq(list, 1, i - 1) \o SubSeq(list, i + 1, Len(list))

\* lines 218-234: one iteration of the for loop. job.get() re-raises the
\* exception of a job that raised: _main leaves the with block with it,
\* after the pop and the "Processed" line
PollJob ==
    /\ pc = "poll"
    /\ scan > 0
    /\ LET k == jobs[scan].job
           imageName == ImageName(jobs[scan].imagePath)
           jobOutput == LoggingOutput(k)
       IN IF ~Ready(k)
          THEN /\ scan' = scan - 1
               /\ UNCHANGED <<pc, jobs, jobsComplete, jpc, jobOutputs, printed,
                              progress, collected, workers>>
          ELSE IF jpc[k] = "raised"
          THEN /\ jobs' = Pop(jobs, scan)
               /\ printed' = Append(printed, ProcessedLine(imageName))
               /\ pc' = "crashed"
               /\ jpc' = PoolExit
               /\ workers' = WorkersGone
               /\ UNCHANGED <<scan, jobsComplete, jobOutputs, progress,
                              collected>>
          ELSE /\ jobs' = Pop(jobs, scan)
               /\ collected' = Append(collected, k)
               /\ IF KeepsOutput(jobOutput)
                  THEN /\ jobOutputs' =
                           Append(jobOutputs, SummaryBlock(imageName, jobOutput))
                       /\ printed' = Append(printed, ProcessedLine(imageName))
                                        \o SummaryBlock(imageName, jobOutput)
                  ELSE /\ printed' = Append(printed, ProcessedLine(imageName))
                       /\ UNCHANGED jobOutputs
               /\ jobsComplete' = JobsCompleteNext(jobsComplete)
               /\ progress' = Append(progress, JobsCompleteNext(jobsComplete))
               /\ scan' = scan - 1
               /\ UNCHANGED <<pc, jpc, workers>>
    /\ UNCHANGED <<inputs, cacheFile, imagePaths, task, outputPath, imageOffset,
                   steps, err, priv, patches, fileSize, fsVars, loggingLevel,
                   fatal, logVars, sigint, proc, signalled>>

\* lines 239-241: pool.close(), pool.join() (the workers finish what they
\* run and exit) and the forced last update of the progress bar
CloseJoin ==
    /\ pc = "close"
    /\ Running = {}
    /\ workers' = WorkersGone
    /\ progress' = Append(progress, jobsComplete)
    /\ pc' = "summary"
    /\ UNCHANGED <<inputs, cacheFile, imagePaths, jobs, scan, jobsComplete, task,
                   jpc, outputPath, imageOffset, steps, err, priv, patches,
                   fileSize, fsVars, loggingLevel, fatal, jobOutputs, printed,
                   collected, logVars, sigint, proc, signalled>>

\* lines 243-247
Summary ==
    /\ pc = "summary"
    /\ printed' = printed \o FinalSummary(jobOutputs)
    /\ pc' = "done"
    /\ UNCHANGED <<inputs, cacheFile, imagePaths, jobs, scan, jobsComplete, task,
                   jpc, outputPath, imageOffset, steps, err, priv, patches,
                   fileSize, fsVars, loggingLevel, fatal, jobOutputs, progress,
                   collected, logVars, poolVars>>

\* SIGINT: KeyboardInterrupt is raised in _main, which no handler catches;
\* inside the with block the pool is terminated on the way out
Interrupt ==
    /\ pc \in {"mkdir", "enumerate", "pool"} \cup InPool
    /\ pc' = "interrupted"
    /\ jpc' = IF pc \in InPool THEN PoolExit ELSE jpc
    /\ workers' = IF pc \in InPool THEN WorkersGone ELSE workers
    /\ UNCHANGED <<inputs, cacheFile, imagePaths, jobs, scan, jobsComplete, task,
                   outputPath, imageOffset, steps, err, priv, patches, fileSize,
                   fsVars, reportVars, logVars, sigint, proc, signalled>>

(* --------------------------- specifications ---------------------------- *)

\* the path of entry i of the small directory: /a, /b, /c, ...
NameOf(i) == <<"/", Chr(96 + i)>>

\* everything but the inputs, as _main finds it when it starts
InitRun ==
    /\ cacheFile = CacheBytes
    /\ pc = "mkdir"
    /\ imagePaths = <<>>
    /\ jobs = <<>>
    /\ scan = 0
    /\ jobsComplete = 0
    /\ task = [k \in JobIds |-> NoTask]
    /\ jpc = [k \in JobIds |-> "none"]
    /\ outputPath = [k \in JobIds |-> NoPath]
    /\ imageOffset = [k \in JobIds |-> 0]
    /\ steps = [k \in JobIds |-> <<>>]
    /\ err = [k \in JobIds |-> "none"]
    /\ priv = [k \in JobIds |-> CleanPages]
    /\ patches = [k \in JobIds |-> 0]
    /\ fileSize = [k \in JobIds |-> 0]
    /\ dirs = {}
    /\ files = <<>>
    /\ loggingLevel = 0
    /\ fatal = FALSE
    /\ jobOutputs = <<>>
    /\ printed = <<>>
    /\ progress = <<>>
    /\ collected = <<>>
    /\ stream = [k \in JobIds |-> <<>>]
    /\ closed = [k \in JobIds |-> FALSE]
    /\ attached = [k \in JobIds |-> {}]
    /\ misdelivered = {}
    /\ emitted = [k \in JobIds |-> <<>>]
    /\ workers = [w \in 1..Processes |-> "none"]
    /\ sigint = [w \in 1..Processes |-> "inherited"]
    /\ proc = [k \in JobIds |-> 0]
    /\ signalled = {}

\* a cache of NumImages images with distinct paths; each image's address is
\* mapped (16) or not (32); the first image once compacted has a __LINKEDIT
\* segment or, if it can be mapped at all, has none; the others have one
Init ==
    /\ \E addrs \in [1..NumImages -> {16, 32}] :
          /\ images = Directory(addrs, [i \in 1..NumImages |-> NameOf(i)])
          /\ \E first \in {NoSeg, [present |-> TRUE, fileoff |-> 1, filesize |-> 1]} :
                /\ addrs[1] = 32 => first.present
                /\ segs = [i \in 1..NumImages |->
                              IF i = 1 THEN first
                              ELSE [present |-> TRUE, fileoff |-> 1, filesize |-> 1]]
    /\ pathBytes = PathRegion([i \in 1..NumImages |-> NameOf(i)])
    /\ outputDir = <<"o">>
    /\ verbosity = -1
    /\ InitRun

\* the statements of _extractImage
JobBody(k) ==
    \/ JobSetup(k)
    \/ JobMapCache(k)
    \/ JobMachO(k)
    \/ RunStep(k)
    \/ JobMkdir(k)
    \/ JobOpen(k)
    \/ JobSize(k)
    \/ JobWrite(k)
    \/ JobFinish(k)

JobStep(k) == StartJob(k) \/ JobBody(k)

Next ==
    \/ MakeOutputDir
    \/ Enumerate
    \/ CreatePool
    \/ Submit
    \/ SetupProgress
    \/ LoopTest
    \/ PollJob
    \/ CloseJoin
    \/ Summary
    \/ Interrupt
    \/ \E k \in JobIds : JobStep(k)

Spec == Init /\ [][Next]_vars

(* Paths: the whole job of an image whose path is any string of up to     *)
(* MaxPathLen characters, next to images of a few fixed paths whose        *)
(* addresses are unmapped.                                                 *)

OutputDirs == {<<"o">>, <<"/", "o">>}

FewPaths == {<<"/", "a">>, <<"a">>}

InitPaths ==
    /\ \E p \in StrsUpTo(MaxPathLen), rest \in [2..NumImages -> FewPaths] :
          LET paths == [i \in 1..NumImages |-> IF i = 1 THEN p ELSE rest[i]]
          IN /\ images = Directory([i \in 1..NumImages |->
                                       IF i = 1 THEN 16 ELSE 32], paths)
             /\ pathBytes = PathRegion(paths)
    /\ segs = [i \in 1..NumImages |->
                  [present |-> TRUE, fileoff |-> 1, filesize |-> 1]]
    /\ outputDir \in OutputDirs
    /\ verbosity = -1
    /\ InitRun

NextPaths ==
    \/ MakeOutputDir
    \/ Enumerate
    \/ CreatePool
    \/ Submit
    \/ \E k \in JobIds : JobStep(k)

SpecPaths == InitPaths /\ [][NextPaths]_vars

(* Bytes: the jobs of the first two images with the stores their pipelines *)
(* make, over every __LINKEDIT the first image can end with; the addresses *)
(* of further images are unmapped.                                         *)

InitBytes ==
    /\ images = Directory([i \in 1..NumImages |-> IF i <= 2 THEN 16 ELSE 32],
                          [i \in 1..NumImages |-> NameOf(i)])
    /\ pathBytes = PathRegion([i \in 1..NumImages |-> NameOf(i)])
    /\ \E s \in {t \in LinkeditSegs : ValidSeg(t)} :
          segs = [i \in 1..NumImages |->
                     IF i = 1 THEN s
                     ELSE [present |-> TRUE, fileoff |-> 1, filesize |-> 1]]
    /\ outputDir = <<"o">>
    /\ verbosity = -1
    /\ InitRun

NextBytes ==
    \/ MakeOutputDir
    \/ Enumerate
    \/ CreatePool
    \/ Submit
    \/ \E k \in JobIds : JobStep(k)
    \/ \E k \in JobIds : PatchByte(k)

SpecBytes == InitBytes /\ [][NextBytes]_vars

(* Levels: the job of the first image at every verbosity the command line *)
(* can give, with up to MaxRecords logging calls of any severity made by   *)
(* its pipeline; the addresses of further images are unmapped.             *)

Verbosities == {-1, 0, 1, 2, 3}

InitLevels ==
    /\ images = Directory([i \in 1..NumImages |-> IF i = 1 THEN 16 ELSE 32],
                          [i \in 1..NumImages |-> NameOf(i)])
    /\ pathBytes = PathRegion([i \in 1..NumImages |-> NameOf(i)])
    /\ segs = [i \in 1..NumImages |->
                  [present |-> TRUE, fileoff |-> 1, filesize |-> 1]]
    /\ outputDir = <<"o">>
    /\ verbosity \in Verbosities
    /\ InitRun

NextLevels ==
    \/ MakeOutputDir
    \/ Enumerate
    \/ CreatePool
    \/ Submit
    \/ \E k \in JobIds : JobStep(k)
    \/ \E k \in JobIds : EmitRecord(k)

SpecLevels == InitLevels /\ [][NextLevels]_vars

(* Workers: the pool with the identity of its processes. The first two    *)
(* images are mapped and the second has the first one's path or a path of  *)
(* its own; the addresses of further images are unmapped. SIGINT reaches   *)
(* the coordinator and any worker process at any time.                     *)

InitWorkers ==
    /\ \E second \in {NameOf(1), NameOf(2)} :
          LET paths == [i \in 1..NumImages |->
                           IF i = 2 THEN second ELSE NameOf(i)]
          IN /\ images = Directory([i \in 1..NumImages |->
                                       IF i <= 2 THEN 16 ELSE 32], paths)
             /\ pathBytes = PathRegion(paths)
    /\ segs = [i \in 1..NumImages |->
                  [present |-> TRUE, fileoff |-> 1, filesize |-> 1]]
    /\ outputDir = <<"o">>
    /\ verbosity = -1
    /\ InitRun

NextWorkers ==
    \/ MakeOutputDir
    \/ Enumerate
    \/ CreatePool
    \/ Submit
    \/ Interrupt
    \/ \E w \in 1..Processes : WorkerInit(w)
    \/ \E w \in 1..Processes : SigintWorker(w)
    \/ \E k \in JobIds, w \in 1..Processes : StartJobOn(k, w)
    \/ \E k \in JobIds : JobBody(k)

SpecWorkers == InitWorkers /\ [][NextWorkers]_vars

(* ------------------------------ properties ----------------------------- *)

\* job k has computed its output path (line 95)
HasOutputPath(k) == jpc[k] \notin {"none", "queued", "setup"} /\ err[k] # "IndexError"

\* the image job k is to write: the first bytes of its buffer, up to the end
\* of __LINKEDIT
CompleteImage(k) ==
    ReadFromStart(MachoView(k), FileSize(segs[task[k].imageIndex + 1]))

\* C1: every fatal failure of an image is caught inside its job: no job ends
\* by raising, so job.get() never raises in the coordinator, which goes on to
\* collect the other jobs.
C1_FailuresCaughtInJob ==
    /\ \A k \in JobIds : jpc[k] # "raised"
    /\ pc # "crashed"

\* C2: no output file is left partially written: once a job has returned, its
\* output file either does not exist or holds the complete extracted image.
C2_OutputAbsentOrComplete ==
    \A k \in JobIds :
        (jpc[k] = "returned" /\ OutFile(k) \in DOMAIN files)
            => /\ segs[task[k].imageIndex + 1].present
               /\ files[OutFile(k)] = CompleteImage(k)

\* C3: a job that ended in a fatal error, caught anywhere in the try block,
\* has created no output file: its output path does not exist.
C3_NoOutputAfterFatalError ==
    \A k \in JobIds :
        (jpc[k] = "returned" /\ err[k] # "none")
            => OutFile(k) \notin DOMAIN files

\* C4 as claimed: on SIGINT the workers that were running are joined: no
\* worker is ever terminated in the middle of a pipeline or a file write.
C4_RunningWorkersJoined ==
    \A k \in JobIds : jpc[k] # "terminated"

\* C4 as amended: once the coordinator was interrupted the pool is
\* terminated: no job is running, none waits in the queue, and a job that
\* has not finished by then was killed or dropped where it was.
C4_InterruptTerminatesPool ==
    pc = "interrupted" =>
        \A k \in JobIds :
            jpc[k] \in {"none", "returned", "raised", "terminated", "cancelled"}

\* a worker was killed between opening its output file and writing it, and a
\* queued job never ran
C4_Witness ==
    /\ pc = "interrupted"
    /\ \E k \in JobIds :
          /\ jpc[k] = "terminated"
          /\ steps[k] = Pipeline
          /\ OutFile(k) \in DOMAIN files
          /\ files[OutFile(k)] = <<>>
    /\ \E k \in JobIds : jpc[k] = "terminated" /\ Len(steps[k]) \in 1..2

\* C5: the cache's bytes never change, and every byte a job sees through
\* its image buffer is the cache's byte or one this job stored itself.
C5_MappingsIsolated ==
    /\ cacheFile = CacheBytes
    /\ \A k \in JobIds : \A p \in 1..CacheLen :
          MachoView(k)[p] \in {CacheBytes[p], Stamp(k)}

\* two jobs are inside their pipelines at once, each has stored into its
\* buffer, and they see different bytes
C5_Witness ==
    /\ jpc[1] = "try" /\ jpc[2] = "try"
    /\ patches[1] > 0 /\ patches[2] > 0
    /\ \E p \in 1..CacheLen : MachoView(1)[p] # MachoView(2)[p]

\* C6: no job exists before the enumeration is over; the k-th job submitted
\* has image index k-1 and the path of entry k of the directory (NameOf(k)
\* in this cache), its address is translated from the same entry, and when
\* the submission loop is over there is exactly one job per entry.
C6_OneJobPerEntry ==
    /\ pc \in {"mkdir", "enumerate"} => \A k \in JobIds : jpc[k] = "none"
    /\ \A k \in JobIds :
          jpc[k] # "none" =>
              /\ Len(imagePaths) = Len(images)
              /\ task[k].imageIndex = k - 1
              /\ task[k].imagePath = NameOf(k)
    /\ \A k \in JobIds :
          jpc[k] = "macho" => imageOffset[k] = ConvertAddr(images[k].address)
    /\ pc = "submit" =>
          /\ \A k \in JobIds : jpc[k] # "none" <=> k <= Len(jobs)
          /\ \A m \in 1..Len(jobs) :
                jobs[m] = [imagePath |-> NameOf(m), job |-> m]
    /\ pc = "poll" => \A k \in JobIds : jpc[k] # "none"

\* all jobs are submitted, over a directory whose paths and addresses
\* differ from entry to entry, and the last job has translated its address
C6_Witness ==
    /\ pc = "poll"
    /\ Len(jobs) = NumImages
    /\ jpc[NumImages] = "macho"
    /\ images[1].address # images[NumImages].address
    /\ task[1].imagePath # task[NumImages].imagePath

\* C7: the output paths of distinct jobs differ.
C7_DisjointOutputPaths ==
    \A j, k \in JobIds :
        (j # k /\ HasOutputPath(j) /\ HasOutputPath(k))
            => outputPath[j] # outputPath[k]

\* the path p, read component by component from depth d below a directory,
\* never leaves that directory
RECURSIVE StaysBelow(_, _)
StaysBelow(parts, d) ==
    IF parts = <<>> THEN TRUE
    ELSE IF parts[1] = <<".", ".">>
         THEN d > 0 /\ StaysBelow(DropFirst(parts, 1), d - 1)
         ELSE StaysBelow(DropFirst(parts, 1), d + 1)

Within(dir, p) ==
    /\ p.root = dir.root
    /\ Len(p.parts) >= Len(dir.parts)
    /\ SubSeq(p.parts, 1, Len(dir.parts)) = dir.parts
    /\ StaysBelow(DropFirst(p.parts, Len(dir.parts)), 0)

\* C8: every output file a job has opened lies inside the output
\* directory, and the directories above it exist.
C8_OutputInsideOutputDir ==
    \A k \in JobIds :
        (HasOutputPath(k) /\ OutFile(k) \in DOMAIN files) =>
            /\ Within(PathOf(outputDir), outputPath[k])
            /\ DirsToMake(Parent(outputPath[k])) \subseteq dirs

\* C9: the output file of an image whose pipeline succeeded holds the bytes
\* of its buffer from position 0 to the end of __LINKEDIT: its length is
\* fileoff + filesize and every byte is the buffer's byte at that position.
C9_OutputIsBufferPrefix ==
    \A k \in JobIds :
        (jpc[k] = "returned" /\ err[k] = "none") =>
            LET seg == segs[task[k].imageIndex + 1]
                out == files[OutFile(k)]
            IN /\ Len(out) = seg.fileoff + seg.filesize
               /\ \A p \in 1..Len(out) : out[p] = MachoView(k)[p]

\* an image was written whose buffer is longer than the file and whose file
\* holds a byte its pipeline stored
C9_Witness ==
    \E k \in JobIds :
        /\ jpc[k] = "returned" /\ err[k] = "none"
        /\ Len(files[OutFile(k)]) < CacheLen
        /\ \E p \in 1..Len(files[OutFile(k)]) :
              files[OutFile(k)][p] = Stamp(k)

StepSet(q) == {q[n] : n \in 1..Len(q)}

\* C10: the steps a job has called are a prefix of pointer slide, linkedit,
\* stubs, Objective-C, offsets (so each runs at most once and in this
\* order); a step that raised is the last one called; and the output file
\* is opened and written only after all five returned.
C10_StepsInFixedOrder ==
    \A k \in JobIds :
        /\ steps[k] = SubSeq(<<"processSlideInfo", "optimizeLinkedit", "fixStubs",
                               "fixObjC", "optimizeOffsets">>, 1, Len(steps[k]))
        /\ (\E n \in 1..Len(steps[k]) : steps[k][n] = err[k])
              => steps[k][Len(steps[k])] = err[k]
        /\ (jpc[k] \in {"mkdir", "open", "size", "write"}
                \/ OutFile(k) \in DOMAIN files)
              => (Len(steps[k]) = 5 /\ err[k] \notin StepSet(steps[k]))

\* one job wrote its file after five steps while another stopped at a step
\* that raised
C10_Witness ==
    /\ \E k \in JobIds :
          /\ jpc[k] = "returned" /\ err[k] = "none"
          /\ OutFile(k) \in DOMAIN files
    /\ \E k \in JobIds : jpc[k] = "returned" /\ err[k] = "fixStubs"

\* job k ended with a failure: an exception it caught or one it raised
Failed(k) == err[k] # "none" /\ jpc[k] \in {"returned", "raised"}

\* C11 as stated: at every verbosity the log text a failed image's job
\* returns is non-empty.
C11_FailedImageLogged ==
    \A k \in JobIds :
        (Failed(k) /\ jpc[k] = "returned") => LoggingOutput(k) # <<>>

\* C11: a failure raised inside the try block is recorded in the returned log
\* text exactly when the verbosity is not 0: at 1, 2 and 3 (and by default)
\* the text holds the job's ERROR record, at 0 it is empty. A failure raised
\* before the try block leaves the job by the exception: nothing is returned.
C11_FailureLoggedUnlessSilent ==
    \A k \in JobIds :
        Failed(k) =>
            IF jpc[k] = "returned"
            THEN /\ (verbosity = 0) <=> (LoggingOutput(k) = <<>>)
                 /\ verbosity # 0 =>
                        [job |-> k, level |-> "ERROR"] \in
                            {LoggingOutput(k)[i] : i \in 1..Len(LoggingOutput(k))}
            ELSE err[k] \in {"IndexError", "AddressNotMapped", "MalformedMachO"}

\* at verbosity 2 a job whose third step raised has returned its ERROR record
C11_Witness ==
    /\ verbosity = 2
    /\ jpc[1] = "returned"
    /\ err[1] = "fixStubs"
    /\ LoggingOutput(1) = <<[job |-> 1, level |-> "ERROR"]>>

\* C12: once the output directory could not be made or the cache could not
\* be read for the enumeration, _main has ended: no pool and no worker
\* process exists, no job was submitted or run, and no file was written.
C12_FatalBeforePool ==
    fatal =>
        /\ pc = "failed"
        /\ \A w \in 1..Processes : workers[w] = "none"
        /\ jobs = <<>>
        /\ \A k \in JobIds : jpc[k] = "none" /\ task[k] = NoTask
        /\ files = <<>>

\* the enumeration failed after the output directory was made
C12_Witness == fatal /\ dirs # {} /\ imagePaths = <<>>

\* the name _main prints for job k
NameOfJob(k) == ImageName(task[k].imagePath)

\* what _main prints while it collects the jobs of list c, in this order: the
\* "Processed" line of each and, if its log text is not empty, its block
RECURSIVE AtCollection(_)
AtCollection(c) ==
    IF c = <<>> THEN <<>>
    ELSE <<ProcessedLine(NameOfJob(Head(c)))>>
         \o (IF stream[Head(c)] # <<>>
             THEN SummaryBlock(NameOfJob(Head(c)), stream[Head(c)]) ELSE <<>>)
         \o AtCollection(Tail(c))

\* the blocks of the jobs of list c whose log text is not empty, in order
RECURSIVE InSummary(_)
InSummary(c) ==
    IF c = <<>> THEN <<>>
    ELSE (IF stream[Head(c)] # <<>>
          THEN SummaryBlock(NameOfJob(Head(c)), stream[Head(c)]) ELSE <<>>)
         \o InSummary(Tail(c))

C14_WorkersIgnoreSigint ==
    /\ \A w \in 1..Processes : workers[w] = "ready" => sigint[w] = "SIG_IGN"
    /\ \A k \in JobIds :
          /\ jpc[k] \in RunningPcs =>
                (proc[k] \in 1..Processes /\ sigint[proc[k]] = "SIG_IGN")
          /\ jpc[k] # "lost"
          /\ err[k] # "KeyboardInterrupt"

\* a job that a SIGINT hit in its process went on and wrote its file
C14_Witness ==
    \E k \in JobIds :
        /\ k \in signalled
        /\ jpc[k] = "returned"
        /\ err[k] = "none"
        /\ OutFile(k) \in DOMAIN files

\* C15: a result is taken only from a job that reported ready, no job is
\* collected twice, and once every job is ready and the loop is over, every
\* job has been collected and none is outstanding.
C15_LoopCollectsEveryJob ==
    /\ \A i \in 1..Len(collected) : jpc[collected[i]] = "returned"
    /\ \A i, j \in 1..Len(collected) : collected[i] = collected[j] => i = j
    /\ (pc \in {"close", "summary", "done", "crashed"}
            /\ \A k \in JobIds : Ready(k))
          => (jobs = <<>> /\ Len(collected) = NumImages)

\* the severities job records are captured of at verbosity v
CapturedAt(v) ==
    CASE v = 0 -> {}
      [] v = 2 -> {"INFO", "WARNING", "ERROR", "CRITICAL"}
      [] v = 3 -> {"DEBUG", "INFO", "WARNING", "ERROR", "CRITICAL"}
      [] OTHER -> {"WARNING", "ERROR", "CRITICAL"}

\* C16: the log text of a job holds, in order, exactly those of its logging
\* calls whose severity the verbosity selects: none at 0 (the returned text
\* is empty), WARNING, ERROR and CRITICAL at 1 and when the option is not
\* given, INFO as well at 2, DEBUG as well at 3.
C16_VerbositySelectsSeverities ==
    \A k \in JobIds :
        LET Pass(sev) == sev \in CapturedAt(verbosity)
        IN /\ [i \in 1..Len(stream[k]) |-> stream[k][i].level]
                 = SelectSeq(emitted[k], Pass)
           /\ (verbosity = 0 /\ jpc[k] = "returned") => LoggingOutput(k) = <<>>

\* at verbosity 2 a job logged at DEBUG and then its failure: only the
\* second record was captured
C16_Witness ==
    /\ verbosity = 2
    /\ emitted[1] = <<"DEBUG", "ERROR">>
    /\ stream[1] = <<[job |-> 1, level |-> "ERROR"]>>

C18_LogsIsolated ==
    /\ \A k \in JobIds :
          jpc[k] = "returned" =>
              \A i \in 1..Len(LoggingOutput(k)) : LoggingOutput(k)[i].job = k
    /\ misdelivered = {}

====
